---- MODULE Spec2Model ----
(***************************************************************************)
(* State-machine model of src/src/controllers.py (ErgoJrControllers):      *)
(* the three service handlers, the trajectory executor threads, the shared *)
(* robot_lock and the motor fields of the hardware adapter they write.     *)
(*                                                                         *)
(* Times are integers in milliseconds, so the 0.001 s offset of the        *)
(* executor's sleep is 1.  Python's 0-based list indices are 1-based here. *)
(***************************************************************************)
EXTENDS Integers, Sequences, FiniteSets, TLC

\* ------------------------------------------------------------------ bounds
\* Iterations of the publish loop that are followed.
MaxTicks == 2
\* Longest trajectory (number of waypoints) a request carries.
MaxPoints == 2
\* Largest time_from_start of a waypoint, in milliseconds.
MaxTime == 2

\* --------------------------------------------------------------- constants
\* moving_speed written by reset_max_speed.
DefaultSpeed == 100
\* The offset subtracted from the wait, 0.001 s.
Epsilon == 1
\* params['time_margin'], read from config/ergo_jr.json at construction.
time_margin == 2

\* The fixed joint-name list of _cb_reach.
Whitelist == <<"m1", "m2", "m3", "m4", "m5", "m6">>
\* Positions of ergo.motors: motor i is the one named Whitelist[i].
Motors == 1..Len(Whitelist)

\* ------------------------------------------------------------ input domains
\* The threads of the model: executor threads started by _cb_execute, and the
\* service threads running _cb_reach and _cb_set_compliant.
Executors == {1, 2}
Reachers == {1}
Compliers == {1}

ExecId(t) == <<"exec", t>>
ReachId(r) == <<"reach", r>>
ComplId(c) == <<"compl", c>>
NoOwner == <<"none", 0>>

\* time_from_start is a signed duration: a negative one is representable.
TimeVals == (0 - 1)..MaxTime
PointPositions == {<<10, 20>>, <<30>>}
JointNames == <<"m1", "m2">>
Points == [positions : PointPositions, time_from_start : TimeVals]

RECURSIVE SeqsUpTo(_, _)
SeqsUpTo(S, n) ==
    IF n = 0 THEN {<<>>}
    ELSE LET shorter == SeqsUpTo(S, n - 1)
         IN  shorter \cup {Append(s, x) : s \in {q \in shorter : Len(q) = n - 1}, x \in S}

Trajectories == [joint_names : {JointNames}, points : SeqsUpTo(Points, MaxPoints)]
EmptyTrajectory == [joint_names |-> <<>>, points |-> <<>>]

ReachNames == {<<"m1">>, <<"m9">>, <<"m3", "m1">>, <<"m2", "m9">>, <<"m1", "m1">>}
ReachPositions == {<<10>>, <<10, 20>>}
ReachDurations == {0 - 1, 0, 2}
ReachRequests == [name : ReachNames, position : ReachPositions, duration : ReachDurations]
\* The requests of the specification that runs every kind of command at once.
ConcPoint1 == [positions |-> <<10, 20>>, time_from_start |-> 1]
ConcPoint2 == [positions |-> <<30>>, time_from_start |-> 2]
ConcTrajectories ==
    [joint_names : {JointNames},
     points : {<<>>, <<ConcPoint1, ConcPoint2>>, <<ConcPoint2, ConcPoint1>>}]
ConcReachRequests ==
    {[name |-> <<"m3", "m1">>, position |-> <<10>>, duration |-> 0],
     [name |-> <<"m3", "m1">>, position |-> <<10, 20>>, duration |-> 2]}
\* The trajectory run beside the publish loop: its second waypoint is behind
\* the first.
PubTrajectories == [joint_names : {JointNames}, points : {<<ConcPoint2, ConcPoint1>>}]
NoRequest == [name |-> <<>>, position |-> <<>>, duration |-> 0]

\* The keys the program reads from its configuration file.
ConfigKeys == {"publish_rate", "time_margin"}
\* What the file may hold: absent, or present with some of the keys.
NoFile == [file |-> FALSE, keys |-> {}]
Configs == {NoFile} \cup [file : {TRUE}, keys : SUBSET ConfigKeys]
FullConfig == [file |-> TRUE, keys |-> ConfigKeys]

\* Readings of the adapter: per motor present_position, present_speed,
\* present_load and goal_speed, and the chain's end effector.
SenseAtRest ==
    [position |-> [m \in Motors |-> m], speed |-> [m \in Motors |-> 0],
     load |-> [m \in Motors |-> 1], goal_speed |-> [m \in Motors |-> 100],
     end_effector |-> <<0, 0, 3>>]
SenseMoving ==
    [position |-> [m \in Motors |-> 10 * m], speed |-> [m \in Motors |-> 5],
     load |-> [m \in Motors |-> 2], goal_speed |-> [m \in Motors |-> 50],
     end_effector |-> <<1, 2, 3>>]
SenseStates == {SenseAtRest, SenseMoving}
Topics == {"end_effector_pose", "joint_state", "joint_goals"}
NoMessage == <<>>

\* Speeds the goto primitive may leave on the motors it moves.
GotoSpeeds == {50, DefaultSpeed}

\* ------------------------------------------------------------------- state
VARIABLES
    ergo,            \* self.ergo: "none", "open" or "closed"
    srv,             \* the three services are registered
    shutdown,        \* rospy.is_shutdown()
    exited,          \* run() has ended: "no", "ok" or "fail"
    lock,            \* owner of self.robot_lock, or NoOwner
    goal_position,   \* per motor
    moving_speed,    \* per motor
    compliant,       \* per motor
    gotoLog,         \* the goto_position calls issued, in order
    params,          \* what json.load found in config/ergo_jr.json
    ppc,             \* where run()'s publish loop stands
    ticks,           \* iterations of the publish loop begun
    sense,           \* what the adapter's sensors and kinematic chain read
    npub,            \* messages emitted so far, per topic
    lastmsg,         \* the latest message emitted, with its topic
    epc, etraj, eidx, etime, ewaited, eout,   \* executor threads
    rpc, rreq, ri, rsnap,                     \* _cb_reach handlers
    cpc, creq, ci, csnap                      \* _cb_set_compliant handlers

hw == <<goal_position, moving_speed, compliant>>
sys == <<ergo, srv, shutdown, exited, params>>
pvars == <<ppc, ticks, sense, npub, lastmsg>>
evars == <<epc, etraj, eidx, etime, ewaited, eout>>
rvars == <<rpc, rreq, ri, rsnap>>
cvars == <<cpc, creq, ci, csnap>>
vars == <<sys, pvars, lock, hw, gotoLog, evars, rvars, cvars>>

\* ----------------------------------------------------------------- helpers
Min(a, b) == IF a < b THEN a ELSE b
Max(a, b) == IF a > b THEN a ELSE b

\* dict(zip(names, values)): pairs up to the shorter length, a later pair with
\* the same name replacing an earlier one.
DictZip(names, values) ==
    LET n == Min(Len(names), Len(values))
        last(k) == CHOOSE i \in 1..n : names[i] = k /\ \A j \in (i + 1)..n : names[j] # k
    IN  [k \in {names[i] : i \in 1..n} |-> values[last(k)]]

InWhitelist(name) == \E i \in Motors : Whitelist[i] = name
\* list.index: the first position holding the name.
IndexOf(name) == CHOOSE i \in Motors : Whitelist[i] = name /\ \A j \in 1..(i - 1) : Whitelist[j] # name

\* Snapshot of the motor fields a handler may write.
Snapshot == [goal |-> goal_position, speed |-> moving_speed, compliant |-> compliant]
NoSnapshot == [goal |-> <<>>, speed |-> <<>>, compliant |-> <<>>]

\* ------------------------------------------------------------------- Init
\* The state after ErgoJrControllers.__init__: no adapter, no service, the
\* lock free.  The motor fields are those of the hardware before power-up.
\* __init__ raises when the file cannot be opened (line 22) or holds no
\* 'publish_rate' (line 25): the process ends there with a traceback.
ConstructionFails(config) == ~config.file \/ "publish_rate" \notin config.keys

InitWith(configs) ==
    /\ params \in configs
    /\ exited = IF ConstructionFails(params) THEN "fail" ELSE "no"
    /\ ppc = "top"
    /\ ticks = 0
    /\ sense = SenseAtRest
    /\ npub = [topic \in Topics |-> 0]
    /\ lastmsg = NoMessage
    /\ ergo = "none"
    /\ srv = FALSE
    /\ shutdown = FALSE
    /\ lock = NoOwner
    /\ goal_position = [m \in Motors |-> 0]
    /\ moving_speed = [m \in Motors |-> 50]
    /\ compliant = [m \in Motors |-> TRUE]
    /\ gotoLog = <<>>
    /\ epc = [t \in Executors |-> "idle"]
    /\ etraj = [t \in Executors |-> EmptyTrajectory]
    /\ eidx = [t \in Executors |-> 0]
    /\ etime = [t \in Executors |-> 0]
    /\ ewaited = [t \in Executors |-> 0]
    /\ eout = [t \in Executors |-> "none"]
    /\ rpc = [r \in Reachers |-> "idle"]
    /\ rreq = [r \in Reachers |-> NoRequest]
    /\ ri = [r \in Reachers |-> 0]
    /\ rsnap = [r \in Reachers |-> NoSnapshot]
    /\ cpc = [c \in Compliers |-> "idle"]
    /\ creq = [c \in Compliers |-> FALSE]
    /\ ci = [c \in Compliers |-> 0]
    /\ csnap = [c \in Compliers |-> NoSnapshot]

\* The configuration file is complete.
Init == InitWith({FullConfig})

\* ---------------------------------------------------------- run(): startup
\* reset_max_speed: every motor's moving_speed becomes 100.
ResetMaxSpeed == [m \in Motors |-> DefaultSpeed]

\* run() fails before the adapter exists: the description parameters are
\* absent, or PoppyErgoJr raises IOError.  exit(-1); finally finds ergo None.
RunStartupFails ==
    /\ exited = "no" /\ ergo = "none"
    /\ exited' = "fail"
    /\ UNCHANGED <<pvars, params, ergo, srv, shutdown, lock, hw, gotoLog, evars, rvars, cvars>>

\* Mutant: the services are registered on an adapter that was created but
\* neither made rigid nor had its speeds reset.
RunStartupUnprepared ==
    /\ exited = "no" /\ ergo = "none"
    /\ ergo' = "open"
    /\ srv' = TRUE
    /\ UNCHANGED <<pvars, params, shutdown, exited, lock, hw, gotoLog, evars, rvars, cvars>>

\* run() creates the adapter, powers it up, makes it rigid, resets the speeds
\* and only then registers the three services.
RunStartup ==
    /\ exited = "no" /\ ergo = "none"
    /\ ergo' = "open"
    /\ compliant' = [m \in Motors |-> FALSE]
    /\ moving_speed' = ResetMaxSpeed
    /\ srv' = TRUE
    /\ UNCHANGED <<pvars, params, shutdown, exited, lock, goal_position, gotoLog, evars, rvars, cvars>>

\* An error after the adapter was created (power_up, the compliance write,
\* the speed reset or a service registration raises): finally closes the
\* adapter and the process ends; no service has been registered.
RunStartupCrash ==
    /\ exited = "no" /\ ergo = "none"
    /\ ergo' = "closed"
    /\ exited' = "fail"
    /\ UNCHANGED <<pvars, params, srv, shutdown, lock, hw, gotoLog, evars, rvars, cvars>>

\* The process-wide shutdown signal.
Shutdown ==
    /\ exited = "no" /\ ~shutdown
    /\ shutdown' = TRUE
    /\ UNCHANGED <<pvars, params, ergo, srv, exited, lock, hw, gotoLog, evars, rvars, cvars>>

\* The publish loop sees is_shutdown() and ends; finally closes the adapter.
RunExit ==
    /\ exited = "no" /\ ergo = "open" /\ shutdown
    /\ ppc \in {"top", "sleep"}
    /\ ergo' = "closed"
    /\ exited' = "ok"
    /\ UNCHANGED <<pvars, params, srv, shutdown, lock, hw, gotoLog, evars, rvars, cvars>>

\* ------------------------------------------------- run(): the publish loop
\* Mutant: the loop body waits until nobody owns robot_lock.
PublishingWhenFree == exited = "no" /\ ergo = "open" /\ lock = NoOwner

\* The loop body runs while the node is up and the adapter open.
Publishing == exited = "no" /\ ergo = "open"

\* pub.publish(msg): one more message on the topic, and the latest emitted.
Emit(topic, msg) ==
    /\ npub' = [npub EXCEPT ![topic] = @ + 1]
    /\ lastmsg' = [topic |-> topic, msg |-> msg]

\* publish_goals: name, goal_position and goal_speed of every motor.
GoalsMessage ==
    [name |-> Whitelist, position |-> goal_position, velocity |-> sense.goal_speed]

\* Mutant: the joint state carries the goal positions, not the present ones.
JointStateMessageOfGoals ==
    [name |-> Whitelist, position |-> goal_position,
     velocity |-> sense.speed, effort |-> sense.load]

\* publish_js: name, present_position, present_speed and present_load.
JointStateMessage ==
    [name |-> Whitelist, position |-> sense.position,
     velocity |-> sense.speed, effort |-> sense.load]

\* publish_eef: the position of chain.end_effector in frame ergo_jr_base.
EefMessage ==
    [frame_id |-> "ergo_jr_base",
     x |-> sense.end_effector[1], y |-> sense.end_effector[2], z |-> sense.end_effector[3]]

\* "while not rospy.is_shutdown()" holds and the tick begins with
\* publish_goals.
PublishGoals ==
    /\ Publishing /\ ppc = "top" /\ ~shutdown
    /\ ticks < MaxTicks
    /\ ticks' = ticks + 1
    /\ Emit("joint_goals", GoalsMessage)
    /\ ppc' = "eef"
    /\ UNCHANGED <<sys, sense, lock, hw, gotoLog, evars, rvars, cvars>>

PublishEef ==
    /\ Publishing /\ ppc = "eef"
    /\ Emit("end_effector_pose", EefMessage)
    /\ ppc' = "js"
    /\ UNCHANGED <<sys, ticks, sense, lock, hw, gotoLog, evars, rvars, cvars>>

PublishJs ==
    /\ Publishing /\ ppc = "js"
    /\ Emit("joint_state", JointStateMessage)
    /\ ppc' = "sleep"
    /\ UNCHANGED <<sys, ticks, sense, lock, hw, gotoLog, evars, rvars, cvars>>

\* publish_rate.sleep() returns: the next tick may begin.
RateSleep ==
    /\ Publishing /\ ppc = "sleep"
    /\ ppc' = "top"
    /\ UNCHANGED <<sys, ticks, sense, npub, lastmsg, lock, hw, gotoLog, evars, rvars, cvars>>

\* The robot moves: the sensors and the chain read something else.
SenseChange ==
    /\ ergo = "open"
    /\ \E x \in SenseStates \ {sense} : sense' = x
    /\ UNCHANGED <<sys, ppc, ticks, npub, lastmsg, lock, hw, gotoLog, evars, rvars, cvars>>

PublishLoop ==
    \/ PublishGoals
    \/ PublishEef
    \/ PublishJs
    \/ RateSleep

\* A service accepts a request: registered, and the node not shut down.
Serving == srv /\ ~shutdown

\* ----------------------------------------------------------- robot_lock
\* "with self.robot_lock": the thread enters once no other thread owns it.
CanAcquireAlways(p) == TRUE

CanAcquire(p) == lock = NoOwner

\* ------------------------------------------------------ goto_position
\* One goto_position call: it is logged with its caller, mapping and motion
\* time.  The primitive sets the goal of every motor it knows in the mapping
\* and leaves on them whatever speed it chose.
GotoEntry(who, point, target, duration) ==
    [who |-> who, point |-> point, target |-> target, duration |-> duration]

GotoGoals(target) ==
    [m \in Motors |-> IF Whitelist[m] \in DOMAIN target
                      THEN target[Whitelist[m]] ELSE goal_position[m]]

GotoSpeedsAfter(target, s) ==
    [m \in Motors |-> IF Whitelist[m] \in DOMAIN target THEN s ELSE moving_speed[m]]

GotoPosition(who, point, target, duration) ==
    /\ gotoLog' = Append(gotoLog, GotoEntry(who, point, target, duration))
    /\ goal_position' = GotoGoals(target)
    /\ \E s \in GotoSpeeds : moving_speed' = GotoSpeedsAfter(target, s)

\* ------------------------------------------------------------ _cb_execute
\* Mutant: the handler calls execute(trajectory) itself instead of starting a
\* thread, so it has to take the lock.
CbExecuteInline(t, trajs) ==
    /\ Serving
    /\ epc[t] = "idle"
    /\ CanAcquire(ExecId(t))
    /\ \E traj \in trajs : etraj' = [etraj EXCEPT ![t] = traj]
    /\ lock' = ExecId(t)
    /\ epc' = [epc EXCEPT ![t] = "loop"]
    /\ eidx' = [eidx EXCEPT ![t] = 1]
    /\ UNCHANGED <<pvars, sys, hw, gotoLog, etime, ewaited, eout, rvars, cvars>>

\* The handler starts a daemon thread on execute(trajectory) and returns its
\* empty response; the thread then waits for the lock.
CbExecute(t, trajs) ==
    /\ Serving
    /\ epc[t] = "idle"
    /\ \E traj \in trajs : etraj' = [etraj EXCEPT ![t] = traj]
    /\ epc' = [epc EXCEPT ![t] = "lock"]
    /\ UNCHANGED <<pvars, sys, lock, hw, gotoLog, eidx, etime, ewaited, eout, rvars, cvars>>

\* ---------------------------------------------------------------- execute
CurrentPoint(t) == etraj[t].points[eidx[t]]

\* duration = time_from_start - time
Duration(time_from_start, time) == time_from_start - time

\* Mutant: no waypoint is ever skipped.
SkipsNever(duration) == FALSE

\* Mutant: a waypoint due exactly at the elapsed time is skipped too.
SkipsAlsoZero(duration) == duration <= 0

\* "if duration < 0.: ... continue"
Skips(duration) == duration < 0

\* Mutant: the motion time leaves the margin out.
MotionTimeNoMargin(duration) == duration

\* The motion time handed to goto_position.
MotionTime(duration) == time_margin + duration

\* Mutant: the wait lasts the whole motion time, margin included.
SleepTimeWithMargin(duration) == Max(0, time_margin + duration - Epsilon)

\* rospy.sleep(d) returns at once for a negative d, else lasts d.
SleepTime(duration) == Max(0, duration - Epsilon)

\* Mutant: execute runs without taking the lock.
ExecAcquireUnlocked(t) ==
    /\ epc[t] = "lock"
    /\ lock' = ExecId(t)
    /\ epc' = [epc EXCEPT ![t] = "loop"]
    /\ eidx' = [eidx EXCEPT ![t] = 1]
    /\ etime' = [etime EXCEPT ![t] = 0]
    /\ UNCHANGED <<pvars, sys, hw, gotoLog, etraj, ewaited, eout, rvars, cvars>>

\* with self.robot_lock: time = 0., the for loop starts.
ExecAcquire(t) ==
    /\ epc[t] = "lock"
    /\ CanAcquire(ExecId(t))
    /\ lock' = ExecId(t)
    /\ epc' = [epc EXCEPT ![t] = "loop"]
    /\ eidx' = [eidx EXCEPT ![t] = 1]
    /\ etime' = [etime EXCEPT ![t] = 0]
    /\ UNCHANGED <<pvars, sys, hw, gotoLog, etraj, ewaited, eout, rvars, cvars>>

\* Mutant: the thread ends without giving the lock back.
ExecLeaveHoldingLock(t, outcome) ==
    /\ lock' = lock
    /\ epc' = [epc EXCEPT ![t] = "done"]
    /\ eout' = [eout EXCEPT ![t] = outcome]

\* Leaving the with block: the lock is released.
ExecLeave(t, outcome) ==
    /\ lock' = NoOwner
    /\ epc' = [epc EXCEPT ![t] = "done"]
    /\ eout' = [eout EXCEPT ![t] = outcome]

\* The for loop has no waypoint left: "Trajectory ended!".
ExecEnd(t) ==
    /\ epc[t] = "loop"
    /\ eidx[t] > Len(etraj[t].points)
    /\ ExecLeave(t, "ended")
    /\ UNCHANGED <<pvars, sys, hw, gotoLog, etraj, eidx, etime, ewaited, rvars, cvars>>

\* Mutant: the loop never looks at the shutdown signal.
BreaksNever == FALSE

\* is_shutdown() is true at a waypoint boundary: break.
BreaksOnShutdown == shutdown

ExecBreak(t) ==
    /\ epc[t] = "loop"
    /\ eidx[t] <= Len(etraj[t].points)
    /\ BreaksOnShutdown
    /\ ExecLeave(t, "stopped")
    /\ UNCHANGED <<pvars, sys, hw, gotoLog, etraj, eidx, etime, ewaited, rvars, cvars>>

\* is_shutdown() is false: the waypoint is taken up.
ExecNext(t) ==
    /\ epc[t] = "loop"
    /\ eidx[t] <= Len(etraj[t].points)
    /\ ~BreaksOnShutdown
    /\ epc' = [epc EXCEPT ![t] = "point"]
    /\ UNCHANGED <<pvars, sys, lock, hw, gotoLog, etraj, eidx, etime, ewaited, eout, rvars, cvars>>

\* A waypoint with a negative duration is skipped: continue.
ExecSkip(t) ==
    /\ epc[t] = "point"
    /\ Skips(Duration(CurrentPoint(t).time_from_start, etime[t]))
    /\ epc' = [epc EXCEPT ![t] = "loop"]
    /\ eidx' = [eidx EXCEPT ![t] = @ + 1]
    /\ UNCHANGED <<pvars, sys, lock, hw, gotoLog, etraj, etime, ewaited, eout, rvars, cvars>>

\* self.params['time_margin'] raises KeyError when the file had no such key.
MarginMissing == "time_margin" \notin params.keys

\* The KeyError is not caught by "except ROSInterruptException": it leaves the
\* with block (the lock is released) and ends the thread, no goto issued.
ExecKeyError(t) ==
    /\ epc[t] = "point"
    /\ ~Skips(Duration(CurrentPoint(t).time_from_start, etime[t]))
    /\ MarginMissing
    /\ ExecLeave(t, "crashed")
    /\ UNCHANGED <<pvars, sys, hw, gotoLog, etraj, eidx, etime, ewaited, rvars, cvars>>

\* Otherwise goto_position is called with the waypoint's mapping.
ExecGoto(t) ==
    /\ epc[t] = "point"
    /\ ~Skips(Duration(CurrentPoint(t).time_from_start, etime[t]))
    /\ ~MarginMissing
    /\ GotoPosition(ExecId(t), eidx[t],
                    DictZip(etraj[t].joint_names, CurrentPoint(t).positions),
                    MotionTime(Duration(CurrentPoint(t).time_from_start, etime[t])))
    /\ epc' = [epc EXCEPT ![t] = "sleep"]
    /\ UNCHANGED <<pvars, sys, lock, compliant, etraj, eidx, etime, ewaited, eout, rvars, cvars>>

\* rospy.sleep(duration - 0.001) returns; time = time_from_start.
ExecSleep(t) ==
    /\ epc[t] = "sleep"
    /\ ewaited' = [ewaited EXCEPT ![t] =
                      @ + SleepTime(Duration(CurrentPoint(t).time_from_start, etime[t]))]
    /\ etime' = [etime EXCEPT ![t] = CurrentPoint(t).time_from_start]
    /\ eidx' = [eidx EXCEPT ![t] = @ + 1]
    /\ epc' = [epc EXCEPT ![t] = "loop"]
    /\ UNCHANGED <<pvars, sys, lock, hw, gotoLog, etraj, eout, rvars, cvars>>

\* The shutdown signal ends the sleep with ROSInterruptException:
\* "Trajectory aborted!".
ExecInterrupted(t) ==
    /\ epc[t] = "sleep"
    /\ shutdown
    /\ ExecLeave(t, "aborted")
    /\ UNCHANGED <<pvars, sys, hw, gotoLog, etraj, eidx, etime, ewaited, rvars, cvars>>

Execute(t) ==
    \/ ExecAcquire(t)
    \/ ExecEnd(t)
    \/ ExecBreak(t)
    \/ ExecNext(t)
    \/ ExecSkip(t)
    \/ ExecGoto(t)
    \/ ExecSleep(t)
    \/ ExecInterrupted(t)

\* execute under any configuration file that got past __init__.
ExecuteAnyConfig(t) ==
    \/ Execute(t)
    \/ ExecKeyError(t)

\* --------------------------------------------------------------- _cb_reach
\* target = dict(zip(request.target.name, request.target.position))
Target(r) == DictZip(rreq[r].name, rreq[r].position)

\* "if duration <= 0.": the direct write of goal positions.
Teleports(duration) == duration <= 0

\* A reach request arrives; the handler logs and waits for the lock.
CbReach(r, reqs) ==
    /\ Serving
    /\ rpc[r] = "idle"
    /\ \E req \in reqs : rreq' = [rreq EXCEPT ![r] = req]
    /\ rpc' = [rpc EXCEPT ![r] = "lock"]
    /\ UNCHANGED <<pvars, sys, lock, hw, gotoLog, evars, ri, rsnap, cvars>>

\* with self.robot_lock: the branch on the duration is taken.
ReachAcquire(r) ==
    /\ rpc[r] = "lock"
    /\ CanAcquire(ReachId(r))
    /\ lock' = ReachId(r)
    /\ rsnap' = [rsnap EXCEPT ![r] = Snapshot]
    /\ ri' = [ri EXCEPT ![r] = 1]
    /\ rpc' = [rpc EXCEPT ![r] = IF Teleports(rreq[r].duration) THEN "teleport" ELSE "goto"]
    /\ UNCHANGED <<pvars, sys, hw, gotoLog, evars, rreq, cvars>>

\* Mutant: the 0-based index is used one place too far.
TeleportWriteShifted(goals, motor, target) ==
    IF InWhitelist(motor)
    THEN [goals EXCEPT ![(IndexOf(motor) % Len(Whitelist)) + 1] = target[motor]]
    ELSE goals

\* The goal positions after one pass of "for motor in request.target.name":
\* a name outside the list is passed over, a listed one gets the target's
\* position written to ergo.motors[index].
TeleportWrite(goals, motor, target) ==
    IF InWhitelist(motor)
    THEN [goals EXCEPT ![IndexOf(motor)] = target[motor]]
    ELSE goals

\* target[motor] raises KeyError: a listed name that zip left without a
\* position.
TeleportRaises(motor, target) == InWhitelist(motor) /\ motor \notin DOMAIN target

ReachTeleport(r) ==
    /\ rpc[r] = "teleport"
    /\ ri[r] <= Len(rreq[r].name)
    /\ ~TeleportRaises(rreq[r].name[ri[r]], Target(r))
    /\ goal_position' = TeleportWrite(goal_position, rreq[r].name[ri[r]], Target(r))
    /\ ri' = [ri EXCEPT ![r] = @ + 1]
    /\ UNCHANGED <<pvars, sys, lock, moving_speed, compliant, gotoLog, evars, rpc, rreq, rsnap, cvars>>

\* The KeyError leaves the with block (the lock is released) and the handler.
ReachKeyError(r) ==
    /\ rpc[r] = "teleport"
    /\ ri[r] <= Len(rreq[r].name)
    /\ TeleportRaises(rreq[r].name[ri[r]], Target(r))
    /\ lock' = NoOwner
    /\ rpc' = [rpc EXCEPT ![r] = "error"]
    /\ UNCHANGED <<pvars, sys, hw, gotoLog, evars, rreq, ri, rsnap, cvars>>

\* goto_position(target, request.duration.to_sec())
ReachGoto(r) ==
    /\ rpc[r] = "goto"
    /\ GotoPosition(ReachId(r), 0, Target(r), rreq[r].duration)
    /\ rpc' = [rpc EXCEPT ![r] = "reset"]
    /\ UNCHANGED <<pvars, sys, lock, compliant, evars, rreq, ri, rsnap, cvars>>

\* Mutant: the reset leaves out the first motor.
ResetWriteFromSecond(speeds, m) ==
    IF m = 1 THEN speeds ELSE [speeds EXCEPT ![m] = DefaultSpeed]

\* reset_max_speed, one motor per step: m.moving_speed = 100
ResetWrite(speeds, m) == [speeds EXCEPT ![m] = DefaultSpeed]

ReachReset(r) ==
    /\ rpc[r] = "reset"
    /\ ri[r] <= Len(Whitelist)
    /\ moving_speed' = ResetWrite(moving_speed, ri[r])
    /\ ri' = [ri EXCEPT ![r] = @ + 1]
    /\ UNCHANGED <<pvars, sys, lock, goal_position, compliant, gotoLog, evars, rpc, rreq, rsnap, cvars>>

\* The with block ends and the handler returns ReachTargetResponse().
ReachReturn(r) ==
    /\ \/ rpc[r] = "teleport" /\ ri[r] > Len(rreq[r].name)
       \/ rpc[r] = "reset" /\ ri[r] > Len(Whitelist)
    /\ lock' = NoOwner
    /\ rpc' = [rpc EXCEPT ![r] = "done"]
    /\ UNCHANGED <<pvars, sys, hw, gotoLog, evars, rreq, ri, rsnap, cvars>>

Reach(r) ==
    \/ ReachAcquire(r)
    \/ ReachTeleport(r)
    \/ ReachKeyError(r)
    \/ ReachGoto(r)
    \/ ReachReset(r)
    \/ ReachReturn(r)

\* ------------------------------------------------------- _cb_set_compliant
CbSetCompliant(c) ==
    /\ Serving
    /\ cpc[c] = "idle"
    /\ \E b \in BOOLEAN : creq' = [creq EXCEPT ![c] = b]
    /\ cpc' = [cpc EXCEPT ![c] = "lock"]
    /\ UNCHANGED <<pvars, sys, lock, hw, gotoLog, evars, rvars, ci, csnap>>

\* Mutant: the compliance loop runs without taking the lock.
ComplAcquireUnlocked(c) ==
    /\ cpc[c] = "lock"
    /\ lock' = ComplId(c)
    /\ csnap' = [csnap EXCEPT ![c] = Snapshot]
    /\ ci' = [ci EXCEPT ![c] = 1]
    /\ cpc' = [cpc EXCEPT ![c] = "set"]
    /\ UNCHANGED <<pvars, sys, hw, gotoLog, evars, rvars, creq>>

ComplAcquire(c) ==
    /\ cpc[c] = "lock"
    /\ CanAcquire(ComplId(c))
    /\ lock' = ComplId(c)
    /\ csnap' = [csnap EXCEPT ![c] = Snapshot]
    /\ ci' = [ci EXCEPT ![c] = 1]
    /\ cpc' = [cpc EXCEPT ![c] = "set"]
    /\ UNCHANGED <<pvars, sys, hw, gotoLog, evars, rvars, creq>>

\* Mutant: the loop leaves out the last motor.
CompliantWriteButLast(flags, m, b) ==
    IF m = Len(Whitelist) THEN flags ELSE [flags EXCEPT ![m] = b]

\* "for m in self.ergo.motors: m.compliant = request.compliant", one motor
\* per step.
CompliantWrite(flags, m, b) == [flags EXCEPT ![m] = b]

ComplSet(c) ==
    /\ cpc[c] = "set"
    /\ ci[c] <= Len(Whitelist)
    /\ compliant' = CompliantWrite(compliant, ci[c], creq[c])
    /\ ci' = [ci EXCEPT ![c] = @ + 1]
    /\ UNCHANGED <<pvars, sys, lock, goal_position, moving_speed, gotoLog, evars, rvars, cpc, creq, csnap>>

\* The with block ends and the handler returns SetCompliantResponse(); the
\* service is then free for its next request.
ComplReturn(c) ==
    /\ cpc[c] = "set"
    /\ ci[c] > Len(Whitelist)
    /\ lock' = NoOwner
    /\ cpc' = [cpc EXCEPT ![c] = "idle"]
    /\ UNCHANGED <<pvars, sys, hw, gotoLog, evars, rvars, creq, ci, csnap>>

SetCompliant(c) ==
    \/ ComplAcquire(c)
    \/ ComplSet(c)
    \/ ComplReturn(c)

\* ----------------------------------------------------------- specifications
\* Spec: every kind of command at once (two executor threads, a reach and a
\* set_compliant handler) on a few requests of each kind.
Next ==
    \/ RunStartupFails
    \/ RunStartup
    \/ Shutdown
    \/ RunExit
    \/ \E t \in Executors : CbExecute(t, ConcTrajectories)
    \/ \E t \in Executors : Execute(t)
    \/ \E r \in Reachers : CbReach(r, ConcReachRequests)
    \/ \E r \in Reachers : Reach(r)
    \/ \E c \in Compliers : CbSetCompliant(c)
    \/ \E c \in Compliers : SetCompliant(c)

Spec == Init /\ [][Next]_vars

\* SpecTraj: one executor thread on every trajectory of up to MaxPoints
\* waypoints, beside a set_compliant handler that contends for the lock, with
\* the shutdown signal arriving at any moment.
NextTraj ==
    \/ RunStartupFails
    \/ RunStartup
    \/ Shutdown
    \/ RunExit
    \/ CbExecute(1, Trajectories)
    \/ Execute(1)
    \/ \E c \in Compliers : CbSetCompliant(c)
    \/ \E c \in Compliers : SetCompliant(c)

SpecTraj == Init /\ [][NextTraj]_vars

\* SpecReach: a reach handler on every reach request and a set_compliant
\* handler, beside one executor thread.
NextReach ==
    \/ RunStartupFails
    \/ RunStartup
    \/ Shutdown
    \/ RunExit
    \/ CbExecute(1, ConcTrajectories)
    \/ Execute(1)
    \/ \E r \in Reachers : CbReach(r, ReachRequests)
    \/ \E r \in Reachers : Reach(r)
    \/ \E c \in Compliers : CbSetCompliant(c)
    \/ \E c \in Compliers : SetCompliant(c)

SpecReach == Init /\ [][NextReach]_vars

\* SpecStartup: the node from its construction on, under every configuration
\* file, with the publish loop, one executor thread, a reach and a
\* set_compliant handler.
InitStartup == InitWith(Configs)

NextStartup ==
    \/ RunStartupFails
    \/ RunStartupCrash
    \/ RunStartup
    \/ Shutdown
    \/ RunExit
    \/ PublishLoop
    \/ CbExecute(1, ConcTrajectories)
    \/ ExecuteAnyConfig(1)
    \/ \E r \in Reachers : CbReach(r, ConcReachRequests)
    \/ \E r \in Reachers : Reach(r)
    \/ \E c \in Compliers : CbSetCompliant(c)
    \/ \E c \in Compliers : SetCompliant(c)

SpecStartup == InitStartup /\ [][NextStartup]_vars

\* SpecLive: the commands under fair scheduling, with every configuration
\* file.  A thread that can take a step of its own eventually takes it, and a
\* thread waiting for robot_lock gets it if it is free again and again; every
\* adapter call and every sleep returns.
NextLive ==
    \/ RunStartupFails
    \/ RunStartupCrash
    \/ RunStartup
    \/ Shutdown
    \/ RunExit
    \/ CbExecute(1, ConcTrajectories)
    \/ ExecuteAnyConfig(1)
    \/ \E r \in Reachers : CbReach(r, ConcReachRequests)
    \/ \E r \in Reachers : Reach(r)
    \/ \E c \in Compliers : CbSetCompliant(c)
    \/ \E c \in Compliers : SetCompliant(c)

FairScheduling ==
    /\ WF_vars(ExecuteAnyConfig(1)) /\ SF_vars(ExecAcquire(1))
    /\ \A r \in Reachers : WF_vars(Reach(r)) /\ SF_vars(ReachAcquire(r))
    /\ \A c \in Compliers : WF_vars(SetCompliant(c)) /\ SF_vars(ComplAcquire(c))

SpecLive == InitStartup /\ [][NextLive]_vars /\ FairScheduling

\* SpecPublish: the publish loop over a robot whose readings change, beside
\* one executor thread, a reach and a set_compliant handler.
NextPublish ==
    \/ RunStartupFails
    \/ RunStartup
    \/ Shutdown
    \/ RunExit
    \/ PublishLoop
    \/ SenseChange
    \/ CbExecute(1, PubTrajectories)
    \/ Execute(1)
    \/ \E r \in Reachers : CbReach(r, ConcReachRequests)
    \/ \E r \in Reachers : Reach(r)
    \/ \E c \in Compliers : CbSetCompliant(c)
    \/ \E c \in Compliers : SetCompliant(c)

SpecPublish == Init /\ [][NextPublish]_vars

\* ====================================================================
\* Properties
\* ====================================================================
\* Where each thread is inside its with-block.
ExecInSection(t) == epc[t] \in {"loop", "point", "sleep"}
ReachInSection(r) == rpc[r] \in {"teleport", "goto", "reset"}
ComplInSection(c) == cpc[c] = "set"

InSection ==
    {ExecId(t) : t \in {x \in Executors : ExecInSection(x)}}
    \cup {ReachId(r) : r \in {x \in Reachers : ReachInSection(x)}}
    \cup {ComplId(c) : c \in {x \in Compliers : ComplInSection(x)}}

\* C1: in every reachable state at most one mutating command (a reach
\* handler, a set_compliant handler or an executor thread) is inside the
\* section in which it writes to the adapter.
C1_AtMostOneInSection == Cardinality(InSection) <= 1

\* Two executors, a reach and a set_compliant were issued at once: one is in
\* its section and the three others wait for the lock.
C1_Witness ==
    /\ epc[1] = "sleep"
    /\ epc[2] = "lock"
    /\ \A r \in Reachers : rpc[r] = "lock"
    /\ \A c \in Compliers : cpc[c] = "lock"

\* An execute request that arrives is handled, whoever owns the lock.
C2_Handled ==
    \A t \in Executors :
        (Serving /\ epc[t] = "idle") => ENABLED CbExecute(t, ConcTrajectories)

\* The handler's step touches nothing but its thread's start.
C2_HandlerStep ==
    \A t \in Executors :
        (epc[t] = "idle" /\ epc'[t] # "idle") =>
            /\ epc'[t] = "lock"
            /\ lock' = lock
            /\ hw' = hw
            /\ gotoLog' = gotoLog
            /\ eidx'[t] = 0 /\ ewaited'[t] = 0

\* C2: the execute handler never blocks.  Whoever owns the lock, an execute
\* request that arrives is handled (the handler is enabled), and the handler's
\* step leaves the lock, the motors, the goto log and its thread's progress
\* untouched: no waypoint has been taken up when it returns.
C2_ExecuteNeverBlocks == [](C2_Handled) /\ [][C2_HandlerStep]_vars

\* The handler of executor 1 has returned while executor 2 is in the middle
\* of its trajectory and a reach waits for the lock.
C2_Witness ==
    /\ epc[1] = "lock" /\ eidx[1] = 0
    /\ epc[2] = "sleep" /\ lock = ExecId(2)
    /\ \A r \in Reachers : rpc[r] = "lock"

\* ------------------------------------------------------ executor properties
\* The waypoint numbers of the gotos a caller issued, in the order issued.
GotoPointsOf(who) ==
    LET mine == SelectSeq(gotoLog, LAMBDA e : e.who = who)
    IN  [i \in 1..Len(mine) |-> mine[i].point]

TimesOf(t) == [i \in 1..Len(etraj[t].points) |-> etraj[t].points[i].time_from_start]

StrictlyIncreasing(ts) == \A i \in 1..(Len(ts) - 1) : ts[i] < ts[i + 1]

\* The executor ran through its whole list without break or interruption,
\* issued one goto per waypoint in list order, waited the last waypoint's
\* time_from_start in total (each wait falls short by at most Epsilon) and
\* ends with its elapsed time on the last time_from_start.
RanEveryWaypoint(t) ==
    LET ts == TimesOf(t)
        n == Len(ts)
    IN  /\ GotoPointsOf(ExecId(t)) = [i \in 1..n |-> i]
        /\ n > 0 => /\ ewaited[t] <= ts[n]
                    /\ ewaited[t] >= ts[n] - n * Epsilon
                    /\ etime[t] = ts[n]

Completed(t) == epc[t] = "done" /\ eout[t] = "ended"

\* C3 as stated: every trajectory with strictly increasing time_from_start
\* values gets one goto per waypoint, in order, and the total wait equals the
\* last time_from_start.
C3_AsStated ==
    \A t \in Executors :
        (Completed(t) /\ StrictlyIncreasing(TimesOf(t))) => RanEveryWaypoint(t)

\* C3 amended: the same for every trajectory whose time_from_start values are
\* strictly increasing and not negative (a first waypoint with a negative
\* time_from_start is skipped).
C3_IncreasingFromZero ==
    \A t \in Executors :
        (/\ Completed(t)
         /\ StrictlyIncreasing(TimesOf(t))
         /\ \A i \in 1..Len(TimesOf(t)) : TimesOf(t)[i] >= 0) => RanEveryWaypoint(t)

\* A two-waypoint trajectory at 0 ms and 2 ms has been run to its end.
C3_Witness ==
    /\ Completed(1)
    /\ TimesOf(1) = <<0, 2>>
    /\ GotoPointsOf(ExecId(1)) = <<1, 2>>

\* The largest time_from_start among the waypoints before k, or zero.
RECURSIVE TimeBefore(_, _)
TimeBefore(ts, k) ==
    IF k <= 1 THEN 0 ELSE Max(TimeBefore(ts, k - 1), ts[k - 1])

\* How many waypoints of its list the executor has decided on (skipped, or
\* commanded with a goto).
Decided(t) ==
    CASE epc[t] \in {"idle", "lock"} -> 0
      [] epc[t] \in {"loop", "point"} -> eidx[t] - 1
      [] epc[t] = "sleep" -> eidx[t]
      [] eout[t] = "aborted" -> eidx[t]
      [] OTHER -> eidx[t] - 1

\* The gotos issued so far are exactly those of the decided waypoints whose
\* time_from_start is not below every earlier one's (and not below zero), in
\* list order.
C4_CommandedPoints ==
    \A t \in Executors :
        LET ts == TimesOf(t)
            kept == {k \in 1..Decided(t) : ts[k] >= TimeBefore(ts, k)}
            gs == GotoPointsOf(ExecId(t))
        IN  /\ {gs[i] : i \in 1..Len(gs)} = kept
            /\ \A i \in 1..(Len(gs) - 1) : gs[i] < gs[i + 1]

\* The step that decides on a waypoint: skipped exactly if its
\* time_from_start is below the elapsed time, and then nothing but the loop
\* index changes; otherwise its goto is issued.
C4_DecidingStep ==
    \A t \in Executors :
        (epc[t] = "point" /\ epc'[t] # "point") =>
            IF CurrentPoint(t).time_from_start < etime[t]
            THEN /\ gotoLog' = gotoLog
                 /\ hw' = hw
                 /\ ewaited'[t] = ewaited[t]
                 /\ etime'[t] = etime[t]
                 /\ epc'[t] = "loop"
                 /\ eidx'[t] = eidx[t] + 1
            ELSE /\ Len(gotoLog') = Len(gotoLog) + 1
                 /\ gotoLog'[Len(gotoLog')].who = ExecId(t)
                 /\ gotoLog'[Len(gotoLog')].point = eidx[t]
                 /\ epc'[t] = "sleep"

\* C4: a waypoint is skipped if and only if its time_from_start is strictly
\* below the elapsed time; a skip issues no goto, waits nothing and leaves the
\* elapsed time alone; a waypoint due exactly at the elapsed time is
\* executed; the waypoints after a skipped one are still processed.
C4_SkipIffBehind == [](C4_CommandedPoints) /\ [][C4_DecidingStep]_vars

\* The first waypoint (at -1 ms) was skipped, the second (at 0 ms, the
\* elapsed time) was executed.
C4_Witness ==
    /\ Completed(1)
    /\ TimesOf(1) = <<0 - 1, 0>>
    /\ GotoPointsOf(ExecId(1)) = <<2>>
    /\ etime[1] = 0

\* The executor has seen the shutdown signal, at a waypoint boundary
\* ("stopped") or as the interruption of its wait ("aborted"): no goto for the
\* waypoint it stopped at (or, aborted, after it) or a later one.
C10_NothingAfterStop ==
    \A t \in Executors :
        LET gs == GotoPointsOf(ExecId(t))
        IN  /\ eout[t] = "stopped" => \A i \in 1..Len(gs) : gs[i] < eidx[t]
            /\ eout[t] = "aborted" => \A i \in 1..Len(gs) : gs[i] <= eidx[t]

\* The steps that see the signal end the executor at once, for good.
C10_StopStep ==
    \A t \in Executors :
        /\ (epc[t] = "loop" /\ eidx[t] <= Len(etraj[t].points) /\ shutdown /\ epc'[t] # "loop") =>
              /\ epc'[t] = "done"
              /\ gotoLog' = gotoLog
        /\ (epc[t] = "sleep" /\ eout'[t] = "aborted") =>
              /\ epc'[t] = "done"
              /\ gotoLog' = gotoLog
              /\ eidx'[t] = eidx[t]
        /\ epc[t] = "done" =>
              /\ epc'[t] = "done"
              /\ eidx'[t] = eidx[t]
              /\ GotoPointsOf(ExecId(t))' = GotoPointsOf(ExecId(t))

\* C10: an executor that finds the shutdown signal set at a waypoint boundary
\* stops there without a goto for that waypoint; one whose wait the signal
\* interrupts stops without taking up another waypoint; once stopped it issues
\* no goto any more, so the remaining waypoints are never commanded.
C10_ShutdownStops == [](C10_NothingAfterStop) /\ [][C10_StopStep]_vars

\* Stopped at the boundary before the second of two waypoints, the first one
\* commanded.
C10_Witness ==
    /\ eout[1] = "stopped"
    /\ Len(etraj[1].points) = 2
    /\ eidx[1] = 2
    /\ GotoPointsOf(ExecId(1)) = <<1>>

\* ------------------------------------------------------- handler properties
GotosOf(who) == SelectSeq(gotoLog, LAMBDA e : e.who = who)

\* The step on which a reach handler leaves its with-block, by return or by
\* an error.
ReachLeaves(r) == rpc[r] \in {"teleport", "reset"} /\ rpc'[r] \in {"done", "error"}

\* The state a reach with duration <= 0 leaves behind.
C5_TeleportStep ==
    \A r \in Reachers :
        (ReachLeaves(r) /\ rreq[r].duration <= 0) =>
            /\ \A m \in Motors :
                  goal_position'[m] = IF Whitelist[m] \in DOMAIN Target(r)
                                      THEN Target(r)[Whitelist[m]]
                                      ELSE rsnap[r].goal[m]
            /\ moving_speed' = rsnap[r].speed
            /\ GotosOf(ReachId(r))' = <<>>
            /\ (\A i \in 1..Len(rreq[r].name) :
                    rreq[r].name[i] \in DOMAIN Target(r) \/ ~InWhitelist(rreq[r].name[i]))
                  => rpc'[r] = "done"

\* C5: a reach with duration <= 0 has, when it leaves, set the goal of every
\* motor whose listed name is in the target to the target's position for that
\* name, left every other motor's goal as it was on entry, issued no goto and
\* reset no speed; a name outside the list is passed over without error.
C5_TeleportSetsNamedGoals == [][C5_TeleportStep]_vars

\* reach(["m2", "m9"], [10, 20], 0) has returned: m2's goal is 10 and the
\* unknown m9 was passed over.
C5_Witness ==
    /\ \A r \in Reachers :
          /\ rpc[r] = "done"
          /\ rreq[r] = [name |-> <<"m2", "m9">>, position |-> <<10, 20>>, duration |-> 0]
    /\ goal_position = [m \in Motors |-> IF m = 2 THEN 10 ELSE 0]
    /\ gotoLog = <<>>

\* The state a reach with duration > 0 leaves behind.
C6_GotoStep ==
    \A r \in Reachers :
        (ReachLeaves(r) /\ rreq[r].duration > 0) =>
            /\ rpc'[r] = "done"
            /\ GotosOf(ReachId(r))' =
                   <<GotoEntry(ReachId(r), 0, Target(r), rreq[r].duration)>>
            /\ \A m \in Motors : moving_speed'[m] = DefaultSpeed

\* C6: a reach with duration > 0 has, when it returns, issued exactly one goto,
\* with the whole target mapping and the requested duration, and every motor's
\* moving_speed is 100, whatever it was before or after the goto.
C6_GotoThenDefaultSpeed == [][C6_GotoStep]_vars

\* A reach with duration 2 has returned with all speeds at 100, having found
\* motor 1 at speed 50 on entry.
C6_Witness ==
    \E r \in Reachers :
        /\ rpc[r] = "done"
        /\ rreq[r].duration = 2
        /\ rsnap[r].speed[1] = 50
        /\ \A m \in Motors : moving_speed[m] = DefaultSpeed

\* The state set_compliant leaves behind.
C7_ReturnStep ==
    \A c \in Compliers :
        (cpc[c] = "set" /\ cpc'[c] # "set") =>
            /\ \A m \in Motors : compliant'[m] = creq[c]
            /\ goal_position' = csnap[c].goal
            /\ moving_speed' = csnap[c].speed

\* C7: when set_compliant(b) returns every motor's compliant flag is b,
\* whatever the flags were on entry, and no goal position or speed has
\* changed since entry.
C7_AllFlagsSet == [][C7_ReturnStep]_vars

\* set_compliant(FALSE) has returned after finding every motor compliant
\* (an earlier set_compliant(TRUE) had made them so).
C7_Witness ==
    \E c \in Compliers :
        /\ cpc[c] = "idle"
        /\ creq[c] = FALSE
        /\ csnap[c].compliant = [m \in Motors |-> TRUE]
        /\ compliant = [m \in Motors |-> FALSE]

\* ---------------------------------------------------- concurrency properties
\* C8: the gotos of two executors never interleave: between two gotos of one
\* trajectory there is no goto of the other, and the two executors are never
\* inside their with-blocks together.
C8_NoInterleaving ==
    /\ \A i, j, k \in 1..Len(gotoLog) :
          (i < j /\ j < k /\ gotoLog[i].who = gotoLog[k].who /\ gotoLog[i].who[1] = "exec")
              => gotoLog[j].who = gotoLog[i].who
    /\ \A t, u \in Executors : (t # u /\ ExecInSection(t)) => ~ExecInSection(u)

\* Both executors have commanded their two waypoints.
C8_Witness ==
    /\ GotoPointsOf(ExecId(1)) = <<1, 2>>
    /\ GotoPointsOf(ExecId(2)) = <<1, 2>>

\* An executor inside its with-block owns the lock.
C9_HoldsLock == \A t \in Executors : ExecInSection(t) => lock = ExecId(t)

\* While an executor is inside, a changed motor field is its own goto's doing.
C9_OnlyExecutorWrites ==
    \A t \in Executors :
        (ExecInSection(t) /\ hw' # hw) =>
            /\ Len(gotoLog') = Len(gotoLog) + 1
            /\ gotoLog'[Len(gotoLog')].who = ExecId(t)
            /\ compliant' = compliant

\* C9: an executor owns the lock from before its first waypoint until it
\* leaves, its waits included, and while it is in there every write to a
\* motor field is one of its own gotos: a reach or set_compliant issued in the
\* meantime writes nothing before the executor has ended or aborted.
C9_LockHeldThroughout == [](C9_HoldsLock) /\ [][C9_OnlyExecutorWrites]_vars

\* Executor 1 waits after its first waypoint while a reach and a
\* set_compliant wait for the lock.
C9_Witness ==
    /\ epc[1] = "sleep" /\ eidx[1] = 1
    /\ \A r \in Reachers : rpc[r] = "lock"
    /\ \A c \in Compliers : cpc[c] = "lock"
    /\ epc[2] = "idle"

\* ------------------------------------------------------------ error handling
\* C11: reach always returns success: whatever the names, the positions (of
\* any length) and the duration, the handler returns its acknowledgment and
\* never ends with an error.
C11_ReachAlwaysReturns == \A r \in Reachers : rpc[r] # "error"

\* The configuration lacks something the program requires.
BadConfig == ~params.file \/ params.keys # ConfigKeys

NothingPublished == \A topic \in Topics : npub[topic] = 0

\* C12: every startup-fatal condition (configuration file absent, publish
\* rate or time margin absent from it, robot description parameters absent,
\* adapter initialization failure) ends the process at startup, before any
\* service is registered and before any message is published.
C12_FatalAtStartup ==
    /\ BadConfig => (~srv /\ NothingPublished)
    /\ exited = "fail" => (~srv /\ NothingPublished)

\* ------------------------------------------------------------ the publisher
\* Between two ticks every topic has had one message per tick begun.
C13_OnePerTopic ==
    ppc \in {"top", "sleep"} => \A topic \in Topics : npub[topic] = ticks

\* A message emitted on joint_state or joint_goals carries, motor by motor in
\* the adapter's order, what the adapter holds at that moment.
C13_TickStep ==
    /\ npub'["joint_state"] # npub["joint_state"] =>
          /\ lastmsg'.topic = "joint_state"
          /\ \A m \in Motors :
                /\ lastmsg'.msg.name[m] = Whitelist[m]
                /\ lastmsg'.msg.position[m] = sense.position[m]
                /\ lastmsg'.msg.velocity[m] = sense.speed[m]
                /\ lastmsg'.msg.effort[m] = sense.load[m]
    /\ npub'["joint_goals"] # npub["joint_goals"] =>
          /\ lastmsg'.topic = "joint_goals"
          /\ \A m \in Motors :
                /\ lastmsg'.msg.name[m] = Whitelist[m]
                /\ lastmsg'.msg.position[m] = goal_position[m]
                /\ lastmsg'.msg.velocity[m] = sense.goal_speed[m]
    /\ \A topic \in Topics : npub'[topic] \in {npub[topic], npub[topic] + 1}

\* C13: every publisher tick emits exactly one message on each of the three
\* topics; the joint-state message carries each motor's name, present
\* position, speed and load as the adapter reads them at that moment, in the
\* adapter's motor order, and the joint-goals message each motor's goal
\* position and goal speed.
C13_TickPublishesReadings == [](C13_OnePerTopic) /\ [][C13_TickStep]_vars

\* With no trajectory running, the second tick has emitted the joint state of
\* a robot that has moved, after a goals message that carried the goal a
\* reach had written to m3.
C13_Witness ==
    /\ ppc = "sleep" /\ ticks = 2
    /\ epc[1] = "idle"
    /\ goal_position[3] = 10
    /\ lastmsg.topic = "joint_state"
    /\ lastmsg.msg.position = SenseMoving.position

\* A step of the publish loop.
PublisherStep == ppc' # ppc \/ npub' # npub \/ ticks' # ticks

\* The publish loop's step takes no lock and writes no motor field.
C16_TickStep == PublisherStep => (lock' = lock /\ hw' = hw /\ gotoLog' = gotoLog)

\* Whoever owns the lock, the publish loop can take its next step: finish the
\* tick it is in, or begin the next one while the node is not shut down.
C16_NeverBlocked ==
    (/\ exited = "no" /\ ergo = "open"
     /\ ppc # "top" \/ (~shutdown /\ ticks < MaxTicks))
        => ENABLED PublishLoop

\* C16: the publisher never acquires the lock and never writes a motor
\* field: a tick leaves every goal position, maximum speed and compliance
\* flag as it was, and ticks go on while an executor, a reach or a
\* set_compliant holds the lock.
C16_PublisherReadOnly == [](C16_NeverBlocked) /\ [][C16_TickStep]_vars

\* The second tick is under way while the executor, holding the lock, waits
\* after its first goto, and a reach and a set_compliant wait for the lock.
C16_Witness ==
    /\ ppc = "js" /\ ticks = 2
    /\ lock = ExecId(1) /\ epc[1] = "sleep"
    /\ \A r \in Reachers : rpc[r] = "lock"
    /\ \A c \in Compliers : cpc[c] = "lock"
    /\ gotoLog # <<>>

\* ----------------------------------------------------- the waypoint's steps
\* The executor's goto for its current waypoint: the mapping pairs the joint
\* names with the waypoint's positions, the motion time is the duration plus
\* the margin, and neither the elapsed time nor the waited time moves.
C14_GotoStep ==
    \A t \in Executors :
        (epc[t] = "point" /\ epc'[t] = "sleep") =>
            LET p == etraj[t].points[eidx[t]]
                d == p.time_from_start - etime[t]
                names == etraj[t].joint_names
                n == Min(Len(names), Len(p.positions))
                g == gotoLog'[Len(gotoLog')]
            IN  /\ d >= 0
                /\ Len(gotoLog') = Len(gotoLog) + 1
                /\ g.who = ExecId(t) /\ g.point = eidx[t]
                /\ DOMAIN g.target = {names[i] : i \in 1..n}
                /\ \A i \in 1..n : g.target[names[i]] = p.positions[i]
                /\ g.duration = d + time_margin
                /\ etime'[t] = etime[t]
                /\ ewaited'[t] = ewaited[t]

\* The wait that follows lasts the duration less Epsilon (no wait at all when
\* that is negative), the margin left out, and ends by setting the elapsed
\* time to the waypoint's time_from_start; no goto is issued meanwhile.
C14_WaitStep ==
    \A t \in Executors :
        (epc[t] = "sleep" /\ epc'[t] = "loop") =>
            LET p == etraj[t].points[eidx[t]]
                d == p.time_from_start - etime[t]
            IN  /\ ewaited'[t] - ewaited[t] = (IF d >= Epsilon THEN d - Epsilon ELSE 0)
                /\ etime'[t] = p.time_from_start
                /\ eidx'[t] = eidx[t] + 1
                /\ gotoLog' = gotoLog

\* A goto is issued only for the waypoint the loop stands at, and while the
\* executor is in the wait after waypoint k its gotos go no further than k.
C14_GotoOnlyAfterWait ==
    \A t \in Executors :
        \A i \in 1..Len(GotoPointsOf(ExecId(t))) :
            \/ GotoPointsOf(ExecId(t))[i] < eidx[t]
            \/ /\ GotoPointsOf(ExecId(t))[i] = eidx[t]
               /\ epc[t] \in {"sleep", "done"}

\* An executor's goto comes from the waypoint step alone, never from within
\* its wait.
C14_GotoFromPoint ==
    \A t \in Executors :
        Len(GotosOf(ExecId(t))') > Len(GotosOf(ExecId(t))) => epc[t] = "point"

\* C14: for every waypoint that is not skipped, with duration =
\* time_from_start - elapsed, goto is given the waypoint's joint-name to
\* position mapping and the motion time duration + time margin; the executor
\* then waits duration - epsilon, margin not included, and only after the
\* wait sets elapsed to the waypoint's time_from_start; the goto for waypoint
\* k+1 is never issued before the wait for waypoint k has finished.
C14_GotoThenWait ==
    /\ [](C14_GotoOnlyAfterWait)
    /\ [][C14_GotoStep /\ C14_WaitStep /\ C14_GotoFromPoint]_vars

\* Waypoints at 0 and 2 ms have both been commanded and waited for: motion
\* times margin + 0 and margin + 2, a total wait of 2 - Epsilon.
C14_Witness ==
    /\ epc[1] = "loop" /\ eidx[1] = 3
    /\ Len(gotoLog) = 2
    /\ gotoLog[1].duration = time_margin
    /\ gotoLog[2].duration = time_margin + 2
    /\ ewaited[1] = 2 - Epsilon
    /\ etime[1] = 2

\* --------------------------------------------------- the executor's clock
\* The waypoints an executor has executed: commanded, and waited for to the
\* end.  The goto of a wait still going on, or interrupted, is not among them.
ExecutedPoints(t) ==
    LET g == GotoPointsOf(ExecId(t))
    IN  IF epc[t] = "sleep" \/ (epc[t] = "done" /\ eout[t] = "aborted")
        THEN SubSeq(g, 1, Len(g) - 1)
        ELSE g

\* Elapsed time is the time_from_start of the last executed waypoint, zero
\* when there is none, and no goto's motion time is below the margin.
C18_ElapsedIsLastExecuted ==
    \A t \in Executors :
        LET done == ExecutedPoints(t)
        IN  /\ etime[t] = IF done = <<>> THEN 0
                          ELSE etraj[t].points[done[Len(done)]].time_from_start
            /\ etime[t] >= 0
            /\ \A i \in 1..Len(GotosOf(ExecId(t))) :
                  GotosOf(ExecId(t))[i].duration >= time_margin

\* Elapsed time never goes back.
C18_NeverDecreases == \A t \in Executors : etime'[t] >= etime[t]

\* C18: within one execution, for any sequence of waypoints, ordered or not,
\* elapsed time starts at zero and never decreases, every goto has a motion
\* time of at least the time margin (never one from a negative duration), and
\* elapsed always equals the time_from_start of the last executed waypoint, or
\* zero if none was executed.
C18_ElapsedMonotone == [](C18_ElapsedIsLastExecuted) /\ [][C18_NeverDecreases]_vars

\* Waypoints at 2 and then 1 ms: the first was executed, the second skipped,
\* and the trajectory ended with elapsed on 2.
C18_Witness ==
    /\ Completed(1)
    /\ TimesOf(1) = <<2, 1>>
    /\ GotoPointsOf(ExecId(1)) = <<1>>
    /\ etime[1] = 2

\* ------------------------------------------------------- startup and close
\* No executor, reach or set_compliant has got into its with-block yet.
NothingStarted ==
    /\ \A t \in Executors : epc[t] \in {"idle", "lock"}
    /\ \A r \in Reachers : rpc[r] \in {"idle", "lock"}
    /\ \A c \in Compliers : cpc[c] \in {"idle", "lock"} /\ csnap[c] = NoSnapshot

\* A request has been accepted.
SomethingAccepted ==
    \/ \E t \in Executors : epc[t] # "idle"
    \/ \E r \in Reachers : rpc[r] # "idle"
    \/ \E c \in Compliers : cpc[c] # "idle" \/ csnap[c] # NoSnapshot

\* C17: no command handler runs before the adapter is ready.  The services
\* are registered only once the adapter has been created, made non-compliant
\* and had every motor's maximum speed reset to 100: no executor, reach or
\* set_compliant exists while the adapter handle is unset, and the first
\* command to get in finds all motors non-compliant at maximum speed 100.
C17_ReadyBeforeServing ==
    /\ srv => ergo # "none"
    /\ SomethingAccepted => (srv /\ ergo # "none")
    /\ (srv /\ NothingStarted) =>
          \A m \in Motors : ~compliant[m] /\ moving_speed[m] = DefaultSpeed

\* The first command to enter its with-block, a reach, found every motor
\* rigid with speed 100, where the hardware had them compliant at 50 before.
C17_Witness ==
    /\ \A t \in Executors : epc[t] = "idle"
    /\ \A c \in Compliers : cpc[c] = "idle" /\ csnap[c] = NoSnapshot
    /\ \E r \in Reachers :
          /\ rpc[r] = "teleport"
          /\ rsnap[r].compliant = [m \in Motors |-> FALSE]
          /\ rsnap[r].speed = [m \in Motors |-> DefaultSpeed]

\* The adapter is closed by the end of the publish loop on shutdown, or by a
\* startup that fails after creating it.
C19_ClosedOnExit ==
    (ergo # "closed" /\ ergo' = "closed") =>
        \/ shutdown /\ ppc \in {"top", "sleep"} /\ exited' = "ok"
        \/ exited' = "fail"

\* Once the adapter is closed nothing is commanded: no goto, no write of a
\* goal position, a maximum speed or a compliance flag.
C19_QuietAfterClose == ergo = "closed" => (hw' = hw /\ gotoLog' = gotoLog)

\* C19: the adapter is closed only when the publish loop exits on shutdown or
\* startup fails after creating it, and once it is closed no executor or
\* handler issues any further command to it, a trajectory that was in the
\* middle of its execution when shutdown began included.
C19_NoCommandAfterClose == [][C19_ClosedOnExit /\ C19_QuietAfterClose]_vars

\* ------------------------------------------------------ release of the lock
\* Whoever owns the lock is inside its with-block: a thread or handler that
\* has ended, by any exit, has given it back.
C15_OwnerInside ==
    /\ \A t \in Executors : lock = ExecId(t) => ExecInSection(t)
    /\ \A r \in Reachers : lock = ReachId(r) => ReachInSection(r)
    /\ \A c \in Compliers : lock = ComplId(c) => ComplInSection(c)

\* Every command waiting for the lock gets it and finishes.
C15_Progress ==
    /\ \A t \in Executors : (epc[t] = "lock") ~> (epc[t] = "done")
    /\ \A r \in Reachers : (rpc[r] = "lock") ~> (rpc[r] \in {"done", "error"})
    /\ \A c \in Compliers : (cpc[c] = "lock") ~> (cpc[c] = "idle")

\* C15: as long as every adapter call returns, every mutating command gives
\* the lock back on every exit path (trajectory completed, shutdown seen at a
\* boundary, wait interrupted, error raised inside the section), so under
\* fair scheduling every reach, set_compliant or executor waiting for the
\* lock eventually gets it and finishes: none is blocked forever by a
\* finished or aborted trajectory.
C15_LockAlwaysReleased == [](C15_OwnerInside) /\ C15_Progress

\* After a trajectory was aborted in its wait, the reach that came in behind
\* the executor's goto has finished and a set_compliant now owns the lock.
C15_Witness ==
    /\ epc[1] = "done" /\ eout[1] = "aborted"
    /\ \A r \in Reachers : rpc[r] = "done" /\ rsnap[r].goal[1] # 0
    /\ \A c \in Compliers : cpc[c] = "set" /\ lock = ComplId(c)

====
